---------------------------- MODULE Spec2Model ----------------------------
(***************************************************************************)
(* ScrollableFrameTk (src/ScrollableFrame.py): a canvas (the viewport)     *)
(* holding a frame (the content area), two scrollbars, and the handlers    *)
(* that glue them.  The state is the geometry the toolkit reports          *)
(* (winfo_width/winfo_height of canvas and frame), the canvas' scroll      *)
(* region and view origin, the <Configure> notifications not yet           *)
(* delivered, and a record of what the last step asked of the canvas.      *)
(* The wheel binding is application-wide (bind_all), so the state also     *)
(* holds what the tag "all" is bound to and, where a second container is   *)
(* constructed in the same application, that container's vertical side.    *)
(*                                                                         *)
(* Lengths are pixels.  The canvas primitives xview/yview/xview_moveto     *)
(* follow Tk's canvas: a view is "fully visible", xview() = (0.0, 1.0),    *)
(* when it starts at or before the region and ends at or after it; one     *)
(* scroll unit is a tenth of the window, one page nine tenths; moveto      *)
(* places the origin at (int)(fraction * extent + 0.5); the origin is      *)
(* confined to the scroll region after every change.                       *)
(***************************************************************************)
EXTENDS Integers, Sequences, FiniteSets, TLC

\* Bounds of the model.  The sizes include 0: the code sets no lower limit on
\* what winfo_width() or event.width may be.
MaxSize == 2        \* widths/heights are 0 and 10, 13, ... 10 + 3 * MaxSize
MaxBoth == 1        \* widths of the two-axis specification: 10 ... 10 + 3 * MaxBoth
MaxPending == 2     \* <Configure> notifications of the canvas not yet delivered
MaxNotch == 4       \* wheel deltas are multiples of 60 up to 60 * MaxNotch, and +-3

Sizes == {0} \cup {10 + 3 * k : k \in 0..MaxSize}
Deltas == {60 * k : k \in (0 - MaxNotch)..MaxNotch} \cup {0 - 3, 3}
BothSizes == {10 + 3 * k : k \in 0..MaxBoth}
Systems == {"Linux", "Darwin", "Windows", "FreeBSD"}

VARIABLES
    system,         \* platform.system()
    canvasW,        \* self._canvas.winfo_width()
    canvasH,        \* self._canvas.winfo_height()
    frameW,         \* self.frame.winfo_width()
    frameH,         \* self.frame.winfo_height()
    regionW,        \* scrollregion of the canvas: (0, 0, regionW, regionH)
    regionH,
    xOrigin,        \* canvas x of the left edge of the window
    yOrigin,        \* canvas y of the top edge of the window
    canvasEvents,   \* widths carried by the canvas' pending <Configure> events
    frameEvent,     \* a <Configure> event of the frame is pending
    last,           \* what the last step did
    boundAll,       \* the containers whose _on_mouse_scroll the tag "all" runs
    newer,          \* a container constructed after this one (its vertical side)
    dispatch        \* the wheel event the last step dispatched, if any

\* The state of this container's application beyond the container itself.
others == <<boundAll, newer, dispatch>>

vars == <<system, canvasW, canvasH, frameW, frameH, regionW, regionH,
          xOrigin, yOrigin, canvasEvents, frameEvent, last,
          boundAll, newer, dispatch>>

-----------------------------------------------------------------------------
\* Arguments a scrollbar or a handler passes on: (tk.SCROLL, n, tk.UNITS),
\* (tk.SCROLL, n, tk.PAGES) or (tk.MOVETO, num/den).
Scroll(n, what) == [op |-> "scroll", n |-> n, what |-> what, num |-> 0, den |-> 1]
MoveTo(num, den) == [op |-> "moveto", n |-> 0, what |-> "fraction", num |-> num, den |-> den]
NoArgs == [op |-> "none", n |-> 0, what |-> "", num |-> 0, den |-> 1]

\* A call that reached the canvas: which primitive, with which arguments.
Call(prim, args) == [prim |-> prim, args |-> args]
NoCall == Call("none", NoArgs)

\* int(n / d) for d > 0: truncation toward zero.
Trunc(n, d) == IF n >= 0 THEN n \div d ELSE 0 - ((0 - n) \div d)

\* A variant of the test that looks at the first fraction only.
ViewFull_FirstOnly(origin, size, region) ==
    \/ region <= 0
    \/ origin <= 0

\* canvas.xview() = (0.0, 1.0), canvas.yview() = (0.0, 1.0): the first
\* fraction is 0.0 and the last is 1.0.
ViewFull(origin, size, region) ==
    \/ region <= 0
    \/ origin <= 0 /\ origin + size >= region

\* The canvas keeps the view inside the scroll region (confine).
Confine(origin, size, region) ==
    LET left == origin
        right == region - (origin + size)
    IN  IF left < 0 /\ right > 0
        THEN origin + (IF right > 0 - left THEN 0 - left ELSE right)
        ELSE IF right < 0 /\ left > 0
        THEN origin + (IF left > 0 - right THEN right ELSE 0 - left)
        ELSE origin

\* The native scroll primitive, canvas.xview(*args) / canvas.yview(*args) /
\* canvas.xview_moveto(fraction): the new origin.
NativeView(origin, size, region, args) ==
    LET new == CASE args.op = "moveto" ->
                      Trunc(2 * args.num * region + args.den, 2 * args.den)
                 [] args.op = "scroll" /\ args.what = "units" ->
                      Trunc(10 * origin + args.n * size, 10)
                 [] args.op = "scroll" /\ args.what = "pages" ->
                      Trunc(10 * origin + 9 * args.n * size, 10)
                 [] OTHER -> origin
    IN  Confine(new, size, region)

-----------------------------------------------------------------------------
\* width = width or self._canvas.winfo_width(); width is <<>> for None.
WidthOr(width) ==
    IF width # <<>> /\ width[1] # 0 THEN width[1] ELSE canvasW

\* (1 - width / self.frame.winfo_width()) / 2 as the fraction num/den.
CentreOffset_NoHalf(width, fw) == MoveTo(fw - width, fw)
CentreOffset_Clamped(width, fw) ==
    IF fw - width < 0 THEN MoveTo(0, 1) ELSE MoveTo(fw - width, 2 * fw)
CentreOffset(width, fw) == MoveTo(fw - width, 2 * fw)

\* A variant of _xview without the centring branch.
_xview_NoCentre(args, width, origin, region) ==
    [origin |-> NativeView(origin, canvasW, region, args),
     call |-> Call("xview", args), fault |-> FALSE]

\* A variant of _xview that runs the scroll test backwards.
_xview_Swapped(args, width, origin, region) ==
    IF ViewFull(origin, canvasW, region) \/ frameW = 0
    THEN [origin |-> NativeView(origin, canvasW, region, args),
          call |-> Call("xview", args), fault |-> FALSE]
    ELSE LET off == CentreOffset(WidthOr(width), frameW)
         IN  [origin |-> NativeView(origin, canvasW, region, off),
              call |-> Call("xview_moveto", off), fault |-> FALSE]

\* _xview(*args, width=None) on a canvas whose origin is `origin` and whose
\* scroll region is `region` wide: the new origin, the call made, the fault.
_xview(args, width, origin, region) ==
    IF ~ViewFull(origin, canvasW, region)
    THEN [origin |-> NativeView(origin, canvasW, region, args),
          call |-> Call("xview", args), fault |-> FALSE]
    ELSE IF frameW = 0
    THEN [origin |-> origin, call |-> NoCall, fault |-> TRUE]
    ELSE LET off == CentreOffset(WidthOr(width), frameW)
         IN  [origin |-> NativeView(origin, canvasW, region, off),
              call |-> Call("xview_moveto", off), fault |-> FALSE]

\* _yview(*args).
_yview_Always(args, origin, region) ==
    [origin |-> NativeView(origin, canvasH, region, args), call |-> Call("yview", args)]
_yview(args, origin, region) ==
    IF ~ViewFull(origin, canvasH, region)
    THEN [origin |-> NativeView(origin, canvasH, region, args),
          call |-> Call("yview", args)]
    ELSE [origin |-> origin, call |-> NoCall]

\* self._canvas.bbox(tk.ALL): the frame is the canvas' only item, anchored
\* north-west at (0, 0), so the box is (0, 0, frameW, frameH).
BboxW == frameW
BboxH == frameH

\* Both <Configure> handlers: self._canvas.configure(scrollregion=bbox), which
\* makes the canvas confine its view to the new region, and then
\* self._xview(tk.SCROLL, 0, tk.UNITS, width=width).
XviewThenConfigure(width) ==
    LET r  == _xview(Scroll(0, "units"), width, xOrigin, regionW)
        y0 == Confine(yOrigin, canvasH, BboxH)
    IN  [regionW |-> BboxW, regionH |-> BboxH, y |-> y0,
         x |-> [r EXCEPT !.origin = Confine(r.origin, canvasW, BboxW)]]
ConfigureThenXview(width) ==
    LET x0 == Confine(xOrigin, canvasW, BboxW)
        y0 == Confine(yOrigin, canvasH, BboxH)
        r  == _xview(Scroll(0, "units"), width, x0, BboxW)
    IN  [regionW |-> BboxW, regionH |-> BboxH, y |-> y0, x |-> r]

\* int(-1 * event.delta) and int(-1 * event.delta / 120).
DarwinUnits(delta) == 0 - delta
WindowsUnits_NoSign(delta) == Trunc(delta, 120)
WindowsUnits_Floor(delta) == (0 - delta) \div 120
WindowsUnits(delta) == Trunc(0 - delta, 120)

\* The arguments _on_mouse_scroll passes to _yview; NoArgs when it makes no call.
WheelArgs_ElseWindows(sys, event) ==
    IF sys = "Linux"
    THEN IF event.num = 4 THEN Scroll(0 - 1, "units")
         ELSE IF event.num = 5 THEN Scroll(1, "units")
         ELSE NoArgs
    ELSE IF sys = "Darwin" THEN Scroll(DarwinUnits(event.delta), "units")
    ELSE Scroll(WindowsUnits(event.delta), "units")
WheelArgs(sys, event) ==
    IF sys = "Linux"
    THEN IF event.num = 4 THEN Scroll(0 - 1, "units")
         ELSE IF event.num = 5 THEN Scroll(1, "units")
         ELSE NoArgs
    ELSE IF sys = "Darwin" THEN Scroll(DarwinUnits(event.delta), "units")
    ELSE IF sys = "Windows" THEN Scroll(WindowsUnits(event.delta), "units")
    ELSE NoArgs

\* The record of a step: the handler, the event it was given, the arguments
\* it passed to _xview and _yview, the calls that reached the canvas, and
\* whether it raised.
Did(h, ev, xreq, yreq, x, y, fault) ==
    [h |-> h, ev |-> ev, xreq |-> xreq, yreq |-> yreq, x |-> x, y |-> y, fault |-> fault]
Event(num, delta, width) == [num |-> num, delta |-> delta, width |-> width]
NoEvent == Event(0, 0, 0)

\* Button-4 and Button-5 presses and <MouseWheel> events (whose num is not a
\* button number, 0 here).
WheelEvents == {Event(4, 0, 0), Event(5, 0, 0)} \cup {Event(0, d, 0) : d \in Deltas}

\* What a scrollbar passes to its command.
ScrollbarArgs ==
    {Scroll(0 - 1, "units"), Scroll(1, "units"), Scroll(1, "pages"),
     MoveTo(0, 1), MoveTo(1, 2)}

\* widget.bind_all(sequence, func) with add=None: the binding of the tag "all"
\* for that sequence is replaced.  `bound` lists the containers whose
\* _on_mouse_scroll is bound, in the order the toolkit runs them.
bind_all_Add(bound, self) == Append(bound, self)
bind_all(bound, self) == <<self>>

\* The widgets a wheel event can be over: the canvases of the two
\* containers, and a widget outside both.  Every widget's binding tags end
\* with "all".
Widgets == {"canvas 1", "canvas 2", "elsewhere"}
BindTags(widget) == <<widget, "all">>
Range(seq) == {seq[i] : i \in DOMAIN seq}

\* A second container, as far as its vertical side goes; NotBuilt before
\* its construction.  `event` says that its first <Configure> is pending.
Container(built, ch, fh, rh, y, event) ==
    [built |-> built, canvasH |-> ch, frameH |-> fh, regionH |-> rh,
     yOrigin |-> y, event |-> event]
NotBuilt == Container(FALSE, 0, 0, 0, 0, FALSE)

\* No wheel event was dispatched; otherwise the widget it was over and the
\* containers whose handlers ran.
NoDispatch == [over |-> "", ran |-> <<>>]

\* _yview and _on_mouse_scroll of the container `c`: its new vertical origin.
_yviewOf(c, args) ==
    IF ~ViewFull(c.yOrigin, c.canvasH, c.regionH)
    THEN NativeView(c.yOrigin, c.canvasH, c.regionH, args)
    ELSE c.yOrigin
_on_mouse_scrollOf(c, event) ==
    LET args == WheelArgs(system, event)
    IN  IF args = NoArgs THEN c.yOrigin ELSE _yviewOf(c, args)

\* The container has been constructed (__init__ ends with xview_moveto(0) and
\* yview_moveto(0)) and laid out for the first time on a host in `systems`,
\* with widths from `widths` and heights from `heights`: the <Configure>
\* events of that first layout are still to be delivered.
InitOn(systems, widths, heights) ==
    /\ system \in systems
    /\ canvasW \in widths /\ canvasH \in heights
    /\ frameW \in widths /\ frameH \in heights
    /\ regionW = 0 /\ regionH = 0
    /\ xOrigin = 0 /\ yOrigin = 0
    /\ canvasEvents = <<canvasW>>
    /\ frameEvent = TRUE
    /\ last = Did("__init__", NoEvent, NoArgs, NoArgs,
                  Call("xview_moveto", MoveTo(0, 1)),
                  Call("yview_moveto", MoveTo(0, 1)), FALSE)
    /\ boundAll = bind_all(<<>>, 1)
    /\ newer = NotBuilt
    /\ dispatch = NoDispatch

\* The toolkit gives the canvas a new size: the view is confined again and a
\* <Configure> event carrying the new width is queued.
CanvasResized(w, h) ==
    /\ <<w, h>> # <<canvasW, canvasH>>
    /\ Len(canvasEvents) < MaxPending
    /\ canvasW' = w /\ canvasH' = h
    /\ xOrigin' = Confine(xOrigin, w, regionW)
    /\ yOrigin' = Confine(yOrigin, h, regionH)
    /\ canvasEvents' = Append(canvasEvents, w)
    /\ last' = Did("canvas resized", NoEvent, NoArgs, NoArgs, NoCall, NoCall, FALSE)
    /\ UNCHANGED <<system, frameW, frameH, regionW, regionH, frameEvent>>

\* Widgets are added to or removed from self.frame: the frame gets a new
\* size and a <Configure> event of the frame is queued.
FrameResized(w, h) ==
    /\ <<w, h>> # <<frameW, frameH>>
    /\ frameW' = w /\ frameH' = h
    /\ frameEvent' = TRUE
    /\ last' = Did("frame resized", NoEvent, NoArgs, NoArgs, NoCall, NoCall, FALSE)
    /\ UNCHANGED <<system, canvasW, canvasH, regionW, regionH, xOrigin, yOrigin,
                   canvasEvents>>

\* The horizontal scrollbar's command.
XScrollbar(args) ==
    LET r == _xview(args, <<>>, xOrigin, regionW)
    IN  /\ xOrigin' = r.origin
        /\ last' = Did("_xview", NoEvent, args, NoArgs, r.call, NoCall, r.fault)
        /\ UNCHANGED <<system, canvasW, canvasH, frameW, frameH, regionW, regionH,
                       yOrigin, canvasEvents, frameEvent>>

\* The vertical scrollbar's command.
YScrollbar(args) ==
    LET r == _yview(args, yOrigin, regionH)
    IN  /\ yOrigin' = r.origin
        /\ last' = Did("_yview", NoEvent, NoArgs, args, NoCall, r.call, FALSE)
        /\ UNCHANGED <<system, canvasW, canvasH, frameW, frameH, regionW, regionH,
                       xOrigin, canvasEvents, frameEvent>>

_on_canvas_configure ==
    /\ canvasEvents # <<>>
    /\ LET width == Head(canvasEvents)
           r == ConfigureThenXview(<<width>>)
       IN  /\ regionW' = r.regionW /\ regionH' = r.regionH
           /\ xOrigin' = r.x.origin /\ yOrigin' = r.y
           /\ last' = Did("_on_canvas_configure", Event(0, 0, width),
                          Scroll(0, "units"), NoArgs, r.x.call, NoCall, r.x.fault)
    /\ canvasEvents' = Tail(canvasEvents)
    /\ UNCHANGED <<system, canvasW, canvasH, frameW, frameH, frameEvent>>

\* A variant of _on_frame_configure that recomputes the scroll region and
\* does not realign.
_on_frame_configure_NoRealign ==
    /\ frameEvent
    /\ regionW' = BboxW /\ regionH' = BboxH
    /\ xOrigin' = Confine(xOrigin, canvasW, BboxW)
    /\ yOrigin' = Confine(yOrigin, canvasH, BboxH)
    /\ last' = Did("_on_frame_configure", NoEvent, NoArgs, NoArgs, NoCall, NoCall, FALSE)
    /\ frameEvent' = FALSE
    /\ UNCHANGED <<system, canvasW, canvasH, frameW, frameH, canvasEvents>>

_on_frame_configure ==
    /\ frameEvent
    /\ LET r == ConfigureThenXview(<<>>)
       IN  /\ regionW' = r.regionW /\ regionH' = r.regionH
           /\ xOrigin' = r.x.origin /\ yOrigin' = r.y
           /\ last' = Did("_on_frame_configure", NoEvent,
                          Scroll(0, "units"), NoArgs, r.x.call, NoCall, r.x.fault)
    /\ frameEvent' = FALSE
    /\ UNCHANGED <<system, canvasW, canvasH, frameW, frameH, canvasEvents>>

\* A variant of _on_mouse_scroll that hands the wheel to _xview.
_on_mouse_scroll_Horizontal(event) ==
    LET args == WheelArgs(system, event)
        r == IF args = NoArgs THEN [origin |-> xOrigin, call |-> NoCall, fault |-> FALSE]
             ELSE _xview(args, <<>>, xOrigin, regionW)
    IN  /\ xOrigin' = r.origin
        /\ last' = Did("_on_mouse_scroll", event, args, NoArgs, r.call, NoCall, r.fault)
        /\ UNCHANGED <<system, canvasW, canvasH, frameW, frameH, regionW, regionH,
                       yOrigin, canvasEvents, frameEvent>>

_on_mouse_scroll(event) ==
    LET args == WheelArgs(system, event)
        r == IF args = NoArgs THEN [origin |-> yOrigin, call |-> NoCall]
             ELSE _yview(args, yOrigin, regionH)
    IN  /\ yOrigin' = r.origin
        /\ last' = Did("_on_mouse_scroll", event, NoArgs, args, NoCall, r.call, FALSE)
        /\ UNCHANGED <<system, canvasW, canvasH, frameW, frameH, regionW, regionH,
                       xOrigin, canvasEvents, frameEvent>>

\* One container in the application: its handler is the one bound to "all",
\* so every wheel event runs it.
NextOn(widths, heights) ==
    \/ \E w \in widths, h \in heights : CanvasResized(w, h) /\ UNCHANGED others
    \/ \E w \in widths, h \in heights : FrameResized(w, h) /\ UNCHANGED others
    \/ \E args \in ScrollbarArgs : XScrollbar(args) /\ UNCHANGED others
    \/ \E args \in ScrollbarArgs : YScrollbar(args) /\ UNCHANGED others
    \/ _on_canvas_configure /\ UNCHANGED others
    \/ _on_frame_configure /\ UNCHANGED others
    \/ \E event \in WheelEvents : _on_mouse_scroll(event) /\ UNCHANGED others

\* A second container is constructed in the same application: its __init__
\* binds its own _on_mouse_scroll to "all"; its canvas is `ch` high and its
\* frame `fh`, and its first <Configure> is pending.
Construct2(ch, fh) ==
    /\ ~newer.built
    /\ newer' = Container(TRUE, ch, fh, 0, 0, TRUE)
    /\ boundAll' = bind_all(boundAll, 2)
    /\ dispatch' = NoDispatch
    /\ UNCHANGED <<system, canvasW, canvasH, frameW, frameH, regionW, regionH,
                   xOrigin, yOrigin, canvasEvents, frameEvent, last>>

\* The second container's <Configure> handler, vertical side: the scroll
\* region becomes the bounding box and the view is confined to it.
Configure2 ==
    /\ newer.built /\ newer.event
    /\ newer' = [newer EXCEPT !.regionH = newer.frameH,
                              !.yOrigin = Confine(newer.yOrigin, newer.canvasH, newer.frameH),
                              !.event = FALSE]
    /\ dispatch' = NoDispatch
    /\ UNCHANGED <<system, canvasW, canvasH, frameW, frameH, regionW, regionH,
                   xOrigin, yOrigin, canvasEvents, frameEvent, last, boundAll>>

\* A wheel event over `widget`: the toolkit runs what the widget's binding
\* tags are bound to, here the handlers bound to "all".
MouseWheel(widget, event) ==
    LET ran == IF "all" \in Range(BindTags(widget)) THEN boundAll ELSE <<>>
    IN  /\ dispatch' = [over |-> widget, ran |-> ran]
        /\ IF 1 \in Range(ran)
           THEN _on_mouse_scroll(event)
           ELSE UNCHANGED <<system, canvasW, canvasH, frameW, frameH, regionW, regionH,
                            xOrigin, yOrigin, canvasEvents, frameEvent, last>>
        /\ newer' = IF 2 \in Range(ran)
                    THEN [newer EXCEPT !.yOrigin = _on_mouse_scrollOf(newer, event)]
                    ELSE newer
        /\ boundAll' = boundAll

\* A step of the first container alone, in an application that may hold two.
Alone == dispatch' = NoDispatch /\ UNCHANGED <<boundAll, newer>>

\* Every width, one height, a Linux host: the horizontal axis in full.
Init == InitOn({"Linux"}, Sizes, {10})
Next == NextOn(Sizes, {10})
Spec == Init /\ [][Next]_vars

\* Every height, one width, every host: the vertical axis and the wheel.
InitV == InitOn(Systems, {10}, Sizes)
NextV == NextOn({10}, Sizes)
SpecV == InitV /\ [][NextV]_vars

\* Both axes: the widths of BothSizes, two heights, a Linux host.
InitHV == InitOn({"Linux"}, BothSizes, {10, 13})
NextHV == NextOn(BothSizes, {10, 13})
SpecHV == InitHV /\ [][NextHV]_vars

\* Two containers in one application: the vertical axis of the first (two
\* heights, a Linux host), the construction of the second, and wheel events
\* over any widget.
InitTwo == InitOn({"Linux"}, {10}, {10, 13})
NextTwo ==
    \/ \E ch \in {10, 13}, fh \in {10, 13} : Construct2(ch, fh)
    \/ Configure2
    \/ \E widget \in Widgets, event \in WheelEvents : MouseWheel(widget, event)
    \/ \E args \in ScrollbarArgs : YScrollbar(args) /\ Alone
    \/ _on_canvas_configure /\ Alone
    \/ _on_frame_configure /\ Alone
SpecTwo == InitTwo /\ [][NextTwo]_vars

-----------------------------------------------------------------------------
\* The fraction num/den of a move-to equals (1 - width/content) / 2.
IsCentre(args, width, content) ==
    /\ args.op = "moveto"
    /\ args.num * (2 * content) = (content - width) * args.den

\* The horizontal view is fully visible: the canvas reports it so, or the
\* frame's size has been delivered and the frame is no wider than the canvas.
FitsX == \/ ViewFull(xOrigin, canvasW, regionW)
         \/ ~frameEvent /\ frameW <= canvasW
ExceedsX == \/ ~ViewFull(xOrigin, canvasW, regionW)
            \/ ~frameEvent /\ frameW > canvasW

\* C1: whenever the content is no wider than the viewport (the horizontal view
\* is reported fully visible), _xview called by the scrollbar forwards nothing
\* to canvas.xview and applies the offset (1 - viewportWidth/contentWidth)/2
\* with xview_moveto, whatever movement it was asked for: any two movement
\* arguments lead to the same call and the same origin.  (A step that ends
\* with last.h = "_xview" is a step of XScrollbar.)
C1_FitsCentres ==
    [][(last'.h = "_xview" /\ FitsX /\ frameW # 0) =>
              /\ last'.x.prim = "xview_moveto"
              /\ IsCentre(last'.x.args, canvasW, frameW)
              /\ ~last'.fault
              /\ \A other \in ScrollbarArgs :
                    /\ _xview(other, <<>>, xOrigin, regionW).call = last'.x
                    /\ _xview(other, <<>>, xOrigin, regionW).origin = xOrigin'
              /\ UNCHANGED <<regionW, regionH, yOrigin>>]_vars

\* C1's case: a scrollbar movement by one unit was answered by a centring
\* move-to with a negative offset (canvas wider than the frame).
C1_Witness ==
    /\ canvasEvents = <<>> /\ ~frameEvent
    /\ last.h = "_xview"
    /\ last.xreq = Scroll(1, "units")
    /\ last.x.prim = "xview_moveto"
    /\ last.x.args.num < 0
    /\ frameW < canvasW

\* C2: whenever the content is wider than the viewport, _xview called by the
\* scrollbar passes its movement argument unchanged to canvas.xview, the
\* origin moves as that primitive moves it, and no centring move-to is made.
C2_ExceedsForwards ==
    [][(last'.h = "_xview" /\ ExceedsX) =>
              /\ last'.xreq \in ScrollbarArgs
              /\ last'.x = Call("xview", last'.xreq)
              /\ last'.x.prim # "xview_moveto"
              /\ xOrigin' = NativeView(xOrigin, canvasW, regionW, last'.xreq)
              /\ ~last'.fault]_vars

\* C2's case: the frame is wider than the canvas, everything is delivered, and
\* a scrollbar movement by one unit went to canvas.xview and moved the view.
C2_Witness ==
    /\ canvasEvents = <<>> /\ ~frameEvent
    /\ frameW > canvasW
    /\ last.h = "_xview"
    /\ last.x = Call("xview", Scroll(1, "units"))
    /\ xOrigin > 0

\* The state _yview and the wheel handler may change apart from the record
\* of the step: all of it except the vertical origin.
OnlyYOriginMay ==
    UNCHANGED <<system, canvasW, canvasH, frameW, frameH, regionW, regionH,
                xOrigin, canvasEvents, frameEvent>>

FitsY == \/ ViewFull(yOrigin, canvasH, regionH)
         \/ ~frameEvent /\ frameH <= canvasH
ExceedsY == \/ ~ViewFull(yOrigin, canvasH, regionH)
            \/ ~frameEvent /\ frameH > canvasH

\* C3: when the content is no taller than the viewport, _yview changes
\* nothing for any movement argument (no call reaches the canvas, no centring
\* move-to is made, the vertical origin and everything else stay); when the
\* content is taller, it passes the movement to canvas.yview.
C3_YviewNoOpOrForward ==
    [][last'.h = "_yview" =>
              /\ last'.yreq \in ScrollbarArgs
              /\ FitsY => /\ yOrigin' = yOrigin
                          /\ OnlyYOriginMay
                          /\ last'.y = NoCall /\ last'.x = NoCall
              /\ ExceedsY => /\ last'.y = Call("yview", last'.yreq)
                             /\ yOrigin' = NativeView(yOrigin, canvasH, regionH, last'.yreq)
                             /\ OnlyYOriginMay]_vars

\* C3's case: the frame is shorter than the canvas, everything is delivered,
\* and a vertical scrollbar movement by one unit reached nothing.
C3_Witness ==
    /\ canvasEvents = <<>> /\ ~frameEvent
    /\ 0 < frameH /\ frameH < canvasH
    /\ last.h = "_yview"
    /\ last.yreq = Scroll(1, "units")
    /\ last.y = NoCall

Abs(n) == IF n < 0 THEN 0 - n ELSE n

\* C4: the wheel handler asks _yview for (SCROLL, n, UNITS) with n as the
\* table gives it: Linux button 4 -> -1, button 5 -> +1; Darwin delta d -> -d;
\* Windows delta d -> -d/120 (exact for multiples of 120, the quotient cut
\* toward zero otherwise); and what reaches canvas.yview, if anything, is
\* that same request.
C4_WheelTable ==
    last.h = "_on_mouse_scroll" =>
        /\ (system = "Linux" /\ last.ev.num = 4) => last.yreq = Scroll(0 - 1, "units")
        /\ (system = "Linux" /\ last.ev.num = 5) => last.yreq = Scroll(1, "units")
        /\ system = "Darwin" => last.yreq = Scroll(0 - last.ev.delta, "units")
        /\ system = "Windows" =>
              /\ last.yreq.op = "scroll" /\ last.yreq.what = "units"
              /\ last.yreq.n * last.ev.delta <= 0
              /\ 120 * Abs(last.yreq.n) <= Abs(last.ev.delta)
              /\ Abs(last.ev.delta) < 120 * (Abs(last.yreq.n) + 1)
              /\ last.ev.delta % 120 = 0 => 120 * last.yreq.n = 0 - last.ev.delta
        /\ last.y \in {NoCall, Call("yview", last.yreq)}
        /\ last.x = NoCall

\* C4's case: on Windows a wheel delta of 240 became a scroll by -2 units
\* that reached canvas.yview.
C4_Witness ==
    /\ system = "Windows"
    /\ last.h = "_on_mouse_scroll"
    /\ last.ev.delta = 240
    /\ last.yreq = Scroll(0 - 2, "units")
    /\ last.y = Call("yview", Scroll(0 - 2, "units"))

\* C5: on a host that is none of Linux, Darwin, Windows, a wheel event does
\* nothing: _yview is not called, nothing reaches the canvas, no state
\* changes and nothing is raised.
C5_OtherHostIgnores ==
    [][(last'.h = "_on_mouse_scroll" /\ system \notin {"Linux", "Darwin", "Windows"}) =>
              /\ last'.yreq = NoArgs
              /\ last'.y = NoCall /\ last'.x = NoCall
              /\ ~last'.fault
              /\ yOrigin' = yOrigin
              /\ OnlyYOriginMay]_vars

\* C5's case: on another host a wheel event arrived while the content was
\* taller than the viewport and the view could have moved.
C5_Witness ==
    /\ system = "FreeBSD"
    /\ last.h = "_on_mouse_scroll"
    /\ last.ev.delta = 120
    /\ ~ViewFull(yOrigin, canvasH, regionH)
    /\ yOrigin > 0

\* What a <Configure> handler given `width` must leave behind: the scroll
\* region is the bounding box of the content, and the realignment that
\* follows has tested the view against that new region.
RecomputedThenRealigned(width) ==
    LET x0 == Confine(xOrigin, canvasW, frameW)
        full == ViewFull(x0, canvasW, frameW)
    IN  /\ regionW' = frameW /\ regionH' = frameH
        /\ last'.xreq = Scroll(0, "units")
        /\ ~full => /\ last'.x = Call("xview", Scroll(0, "units"))
                    /\ xOrigin' = x0
                    /\ ~last'.fault
        /\ (full /\ frameW # 0) =>
                    /\ last'.x.prim = "xview_moveto"
                    /\ IsCentre(last'.x.args, WidthOr(width), frameW)
                    /\ ~last'.fault
        /\ (full /\ frameW = 0) => last'.x = NoCall /\ last'.fault
        /\ last'.y = NoCall
        /\ UNCHANGED <<system, canvasW, canvasH, frameW, frameH>>

\* C6: each <Configure> handler first sets the scroll region to the bounding
\* box of the content and only then realigns: the fits test of the
\* realignment sees the new region, and the handler is one step (it consumes
\* its own notification and no other).
C6_RecomputeBeforeRealign ==
    [][/\ last'.h = "_on_canvas_configure" =>
              /\ canvasEvents # <<>>
              /\ RecomputedThenRealigned(<<Head(canvasEvents)>>)
              /\ canvasEvents' = Tail(canvasEvents) /\ frameEvent' = frameEvent
       /\ last'.h = "_on_frame_configure" =>
              /\ RecomputedThenRealigned(<<>>)
              /\ canvasEvents' = canvasEvents /\ frameEvent' = FALSE]_vars

\* C6's case: the frame's <Configure> handler found the frame wider than the
\* canvas and forwarded the zero-unit scroll against the new region.
C6_Witness ==
    /\ last.h = "_on_frame_configure"
    /\ regionW = frameW /\ frameW > canvasW /\ canvasW > 0
    /\ last.x = Call("xview", Scroll(0, "units"))

\* The width a centring call used: the width of the event when the canvas'
\* <Configure> handler passed one (and it is not 0), the canvas' width otherwise.
UsedWidth ==
    IF last.h = "_on_canvas_configure" /\ last.ev.width # 0
    THEN last.ev.width ELSE canvasW

Centred ==
    /\ last.h \in {"_xview", "_on_canvas_configure", "_on_frame_configure"}
    /\ last.x.prim = "xview_moveto"

\* C7 as stated: the value passed to xview_moveto lies in [0.0, 1.0].
C7_OffsetInRange ==
    Centred => /\ 0 <= last.x.args.num
               /\ last.x.args.num <= last.x.args.den

\* C7 amended: the centring offset is not clamped. The value passed to
\* xview_moveto is exactly (1 - width/contentWidth)/2: below 0 whenever the
\* width used exceeds the content width, and in [0, 1/2] otherwise.
C7_OffsetUnclamped ==
    Centred => /\ IsCentre(last.x.args, UsedWidth, frameW)
               /\ last.x.args.den > 0
               /\ UsedWidth > frameW => last.x.args.num < 0
               /\ UsedWidth <= frameW => /\ 0 <= last.x.args.num
                                         /\ 2 * last.x.args.num <= last.x.args.den

\* C7's case: a canvas wider than the frame was centred with a negative
\* offset, and the view now starts left of the content.
C7_Witness ==
    /\ Centred
    /\ canvasEvents = <<>> /\ ~frameEvent
    /\ canvasW > frameW
    /\ last.x.args.num < 0
    /\ xOrigin < 0

\* C9 as stated: no handler raises, whatever the geometry.
C9_NoFault == ~last.fault

\* C10 as stated: the canvas' <Configure> handler centres with the width its
\* event carries, the frame's handler and the scrollbar with the canvas'
\* current width.
C10_WidthUsed ==
    Centred => IF last.h = "_on_canvas_configure"
               THEN IsCentre(last.x.args, last.ev.width, frameW)
               ELSE IsCentre(last.x.args, canvasW, frameW)

\* The origin a centring move-to leaves: (int)((content - width)/2 + 0.5).
CentredOrigin(width, content) == Trunc(content - width + 1, 2)

\* C8: content that exceeded the viewport on both axes, scrolled anywhere,
\* fits after the viewport is resized: from the resize on both views are
\* reported fully visible; the canvas' <Configure> handler for that resize
\* centres with the formula's value for the new width, which places the
\* origin; and from then on no vertical request, from the scrollbar or the
\* wheel, changes the vertical origin or reaches the canvas.
C8_ResizeToFit ==
    [][/\ (/\ last'.h = "canvas resized"
           /\ ~frameEvent
           /\ frameW > canvasW /\ frameH > canvasH
           /\ frameW <= canvasW' /\ frameH <= canvasH') =>
                  /\ ViewFull(xOrigin', canvasW', regionW')
                  /\ ViewFull(yOrigin', canvasH', regionH')
       /\ (/\ last'.h = "_on_canvas_configure"
           /\ last'.ev.width = canvasW
           /\ 0 < frameW /\ frameW <= canvasW) =>
                  /\ last'.x.prim = "xview_moveto"
                  /\ IsCentre(last'.x.args, canvasW, frameW)
                  /\ xOrigin' = CentredOrigin(canvasW, frameW)
       /\ (/\ last'.h \in {"_yview", "_on_mouse_scroll"}
           /\ ~frameEvent /\ frameH <= canvasH) =>
                  yOrigin' = yOrigin /\ last'.y = NoCall]_vars

\* C8's case: after a resize made the content fit on both axes and its
\* <Configure> event was handled (the view is centred), a wheel event asked
\* for a vertical scroll and nothing moved.
C8_Witness ==
    /\ canvasEvents = <<>> /\ ~frameEvent
    /\ frameW < canvasW /\ frameH < canvasH
    /\ xOrigin = CentredOrigin(canvasW, frameW) /\ xOrigin < 0
    /\ last.h = "_on_mouse_scroll"
    /\ last.yreq = Scroll(1, "units")
    /\ last.y = NoCall

\* Every origin a view may have had: within one largest size of the region.
Origins == (0 - (10 + 3 * MaxSize))..(2 * (10 + 3 * MaxSize))

\* The branch a fits test takes on a canvas of `size` with scroll region
\* `region`, were the origin `o` instead of the current one.
SameBranchFrom(o, origin, size, region) ==
    Confine(o, size, region) = o =>
        (ViewFull(o, size, region) <=> ViewFull(origin, size, region))

\* C11: there is no persisted fits/doesn't-fit mode.  Once the frame's size
\* has been delivered, the branch _xview and _yview take on the next request
\* is a function of the current canvas and frame sizes along that axis alone:
\* forward to canvas.xview / canvas.yview exactly when the frame is larger
\* than the canvas.  Neither the origin the view happens to have, nor any
\* other origin an earlier scroll or centring could have left, nor what the
\* previous step did, changes the branch; and the branch the last request
\* took (the sizes are as they were when it was made) is that same function.
C11_BranchByGeometry ==
    ~frameEvent =>
        /\ \A args \in ScrollbarArgs :
              /\ _xview(args, <<>>, xOrigin, regionW).call.prim = "xview"
                    <=> frameW > canvasW
              /\ _yview(args, yOrigin, regionH).call.prim = "yview"
                    <=> frameH > canvasH
        /\ \A o \in Origins :
              /\ SameBranchFrom(o, xOrigin, canvasW, regionW)
              /\ SameBranchFrom(o, yOrigin, canvasH, regionH)
        /\ last.h = "_xview" =>
              /\ last.x.prim = "xview" <=> frameW > canvasW
              /\ (frameW <= canvasW /\ frameW # 0) => last.x.prim = "xview_moveto"
        /\ (last.h \in {"_yview", "_on_mouse_scroll"} /\ last.yreq # NoArgs) =>
              /\ last.y.prim = "yview" <=> frameH > canvasH
              /\ last.y = NoCall <=> frameH <= canvasH

\* C11's case: the view was centred horizontally earlier (the origin is left
\* of the content) and scrolled down earlier (the vertical origin is not 0);
\* the frame is taller but not wider than the canvas, and a further vertical
\* request from the scrollbar was forwarded.
C11_Witness ==
    /\ canvasEvents = <<>> /\ ~frameEvent
    /\ frameW < canvasW /\ xOrigin < 0
    /\ frameH > canvasH /\ yOrigin > 0
    /\ last.h = "_yview"
    /\ last.y.prim = "yview"

\* Every resize notification has been handled.
Settled == canvasEvents = <<>> /\ ~frameEvent

\* C12: once every pending resize notification has been handled, content
\* that fits horizontally sits at the centring value for the current canvas
\* and frame widths: the origin is the one xview_moveto((1 - canvasW/frameW)/2)
\* leaves (that fraction of the content width, within a pixel), whatever
\* scrollbar and wheel events came before.
C12_SettledCentred ==
    (Settled /\ 0 < frameW /\ frameW <= canvasW) =>
        /\ xOrigin = CentredOrigin(canvasW, frameW)
        /\ xOrigin <= 0
        /\ Abs(2 * xOrigin - (frameW - canvasW)) <= 2
        /\ ViewFull(xOrigin, canvasW, regionW)

\* C12's case: everything was delivered, the frame is narrower than the
\* canvas, the scrollbar was dragged to the middle, and the view is where
\* the centring value puts it.
C12_Witness ==
    /\ Settled
    /\ 0 < frameW /\ frameW < canvasW
    /\ last.h = "_xview"
    /\ last.xreq = MoveTo(1, 2)
    /\ xOrigin = CentredOrigin(canvasW, frameW) /\ xOrigin < 0

C14_TruncatesTowardZero ==
    [][last'.h = "_on_mouse_scroll" =>
          /\ system = "Windows" =>
                LET delta == last'.ev.delta
                    n == last'.yreq.n
                IN  /\ last'.yreq = Scroll(n, "units")
                    /\ delta >= 0 => n = 0 - (delta \div 120)
                    /\ delta < 0 => n = (0 - delta) \div 120
                    /\ delta % 120 # 0 => 120 * Abs(n) < Abs(delta)
                    /\ Abs(delta) < 120 =>
                          /\ last'.yreq = Scroll(0, "units")
                          /\ last'.y = IF ViewFull(yOrigin, canvasH, regionH)
                                       THEN NoCall
                                       ELSE Call("yview", Scroll(0, "units"))
                          /\ yOrigin' = yOrigin
                          /\ OnlyYOriginMay
          /\ (system = "Linux" /\ last'.ev.num \notin {4, 5}) =>
                /\ last'.yreq = NoArgs
                /\ last'.y = NoCall
                /\ yOrigin' = yOrigin
                /\ OnlyYOriginMay]_vars

\* C14's case: on Windows, with the view scrolled down over taller content, a
\* wheel delta of 60 became a scroll by 0 units that reached canvas.yview.
C14_Witness ==
    /\ system = "Windows"
    /\ last.h = "_on_mouse_scroll"
    /\ last.ev.delta = 60
    /\ last.yreq = Scroll(0, "units")
    /\ last.y = Call("yview", Scroll(0, "units"))
    /\ yOrigin > 0

\* The most recently constructed container.
Newest == IF newer.built THEN 2 ELSE 1

\* C15: the wheel handler is bound to the tag "all".  A wheel event over any
\* widget (either canvas, or a widget outside both containers) runs the
\* handler of the most recently constructed container and no other; it moves
\* that container's view as its _on_mouse_scroll moves it.  Once a second
\* container has been constructed no wheel event runs the first container's
\* handler or changes anything of the first container, its vertical origin
\* included; only the newest container is ever bound.
C15_WheelToNewest ==
    [][/\ boundAll' = <<Newest'>>
       /\ dispatch'.over # "" =>
              /\ dispatch'.over \in Widgets
              /\ dispatch'.ran = <<Newest>>
              /\ newer.built =>
                    /\ yOrigin' = yOrigin
                    /\ UNCHANGED <<system, canvasW, canvasH, frameW, frameH, regionW,
                                   regionH, xOrigin, canvasEvents, frameEvent, last>>
                    /\ \E event \in WheelEvents :
                          newer'.yOrigin = _on_mouse_scrollOf(newer, event)
              /\ ~newer.built =>
                    /\ last'.h = "_on_mouse_scroll"
                    /\ yOrigin' = _on_mouse_scrollOf(
                                      Container(TRUE, canvasH, frameH, regionH, yOrigin, FALSE),
                                      last'.ev)
                    /\ newer' = NotBuilt]_vars

\* C15's case: two containers, both with content taller than the canvas; a
\* wheel event over the first container's canvas ran the second container's
\* handler only and scrolled the second container down, while the first,
\* which could have scrolled, stayed at the top.
C15_Witness ==
    /\ newer.built /\ ~newer.event
    /\ Settled /\ frameH > canvasH /\ yOrigin = 0
    /\ dispatch = [over |-> "canvas 1", ran |-> <<2>>]
    /\ newer.frameH > newer.canvasH /\ newer.yOrigin > 0

=============================================================================
